---- MODULE Spec2Model ----
(***************************************************************************)
(* Model of wybiral/spirit-box, main.py: an SDR "spirit box" that tunes an *)
(* RTL-SDR to random FM frequencies, assembles fixed-size windows of IQ    *)
(* samples from the device's chunk stream (Radio.stream), demodulates them *)
(* (Radio.decode_fm) and plays them, until SIGINT clears `running`.        *)
(*                                                                         *)
(* Samples are not stored one by one.  The device stream is the sequence   *)
(* of samples number 0, 1, 2, ...; a numpy array of samples is a sequence  *)
(* of runs [lo, len, tune, level, shift]: `len` consecutive samples        *)
(* starting at stream position `lo`, read after `tune` calls of set_freq,  *)
(* all zero (level 0) or carrying signal (level > 0), multiplied `shift`   *)
(* times by the offset-correction exponential.  Concatenation and slicing  *)
(* are computed on runs exactly as numpy computes them on the samples.     *)
(*                                                                         *)
(* asyncio runs main() as one task on a single thread: the code between    *)
(* two awaits runs without interleaving, and the SIGINT handler is a loop  *)
(* callback, so it only runs while main is suspended at an await.          *)
(***************************************************************************)
EXTENDS Integers, Sequences, FiniteSets, TLC

\* ---------------------------------------------------------------- bounds
MaxChunks == 3          \* chunks the device delivers before its stream ends
RandDen == 2            \* random.random() is drawn from {0/RandDen, ..}
FixOne == 1024          \* the float quotient 10000 / peak is kept to 1/FixOne

\* ------------------------------------------------------ program constants
BlockSize == 1024
Bandwidth == 200000
AudioRate == 44100
TargetAmp == 10000
DefaultOffset == 250000
Mega == 1000000

\* ---------------------------------------------------------------- inputs
Rates == {1200000, 100000}                       \* --rate
\* --duration in seconds, as <<numerator, denominator>>
Durations == {<<0, 1>>, <<9, 10000>>, <<18, 10000>>, <<11, 1000>>}
FreqPairs == {<<87, 110>>, <<110, 87>>}          \* <<--min, --max>> in MHz
ChunkSizes == {512, 1536, 4096}                  \* device-determined sizes
\* all-zero samples, or the magnitude the samples give the demodulated signal
Levels == {0, 3}

VARIABLES
  rate, duration, f0, f1,      \* args.rate, args.duration, args.min, args.max
  running,                     \* the global flag
  pc,                          \* where main() is
  sigPending,                  \* SIGINT delivered, handler not yet run
  interrupted,                 \* handle_sigint has run at least once
  freq, offset, center_freq,   \* Radio.freq (in 1/RandDen MHz), Radio.offset,
                               \*   sdr.center_freq (Hz; -1: never set)
  radio_rate, sample_rate,     \* Radio.rate, sdr.sample_rate (0: not yet set)
  n, b, s,                     \* Radio.stream locals: window size, carry, window
  pcm, divByZero,              \* result of decode_fm; 10000 / 0 was evaluated
  error,                       \* exception that ended the main task
  sdrOpen, mixerUp, loopRunning,
  teardown,                    \* teardown calls issued, in order
  chunks, windows,             \* history: chunks read, windows yielded
  ntune, ndecode, nplay        \* calls of set_freq, decode_fm, sound.play

vars == <<rate, duration, f0, f1, running, pc, sigPending, interrupted,
          freq, offset, center_freq, radio_rate, sample_rate,
          n, b, s, pcm, divByZero, error,
          sdrOpen, mixerUp, loopRunning, teardown, chunks, windows,
          ntune, ndecode, nplay>>

\* ------------------------------------------------------- arrays of samples
RECURSIVE SamplesIn(_)
\* len(array)
SamplesIn(a) == IF a = <<>> THEN 0 ELSE Head(a).len + SamplesIn(Tail(a))

RECURSIVE Take(_, _)
\* a[:k]
Take(a, k) ==
  IF k = 0 \/ a = <<>> THEN <<>>
  ELSE IF Head(a).len <= k
       THEN <<Head(a)>> \o Take(Tail(a), k - Head(a).len)
       ELSE <<[Head(a) EXCEPT !.len = k]>>

RECURSIVE DropOneMore(_, _)
\* a[k+1:]
DropOneMore(a, k) ==
  IF a = <<>> THEN <<>>
  ELSE IF Head(a).len <= k + 1 THEN
         IF Head(a).len = k + 1 THEN Tail(a)
         ELSE DropOneMore(Tail(a), k - Head(a).len)
  ELSE <<[Head(a) EXCEPT !.lo = @ + k + 1, !.len = @ - (k + 1)]>> \o Tail(a)

RECURSIVE Drop(_, _)
\* a[k:]
Drop(a, k) ==
  IF a = <<>> THEN <<>>
  ELSE IF k = 0 THEN a
  ELSE IF Head(a).len <= k THEN Drop(Tail(a), k - Head(a).len)
  ELSE <<[Head(a) EXCEPT !.lo = @ + k, !.len = @ - k]>> \o Tail(a)

\* np.concatenate((a, x))
Concatenate(a, x) == a \o x

\* int(seconds * rate), without the rounding to whole blocks
StreamNUnaligned(seconds, r) == (seconds[1] * r) \div seconds[2]

\* n = int(seconds * rate); n = n - (n % 1024)
StreamN(seconds, r) ==
  LET m == (seconds[1] * r) \div seconds[2]
  IN  m - (m % BlockSize)

\* ------------------------------------------------------------- decode_fm
\* d = int(rate / bandwidth)
DecimFactor(r) == r \div Bandwidth

\* int(rate2 / 44100) with rate2 = rate / d
AudioFactor(r) == r \div (DecimFactor(r) * AudioRate)

\* length of signal.decimate(x, q) for an input of k samples
DecimatedLen(k, q) == (k + q - 1) \div q

\* length of the buffer decode_fm returns for a window of k samples
PcmLen(k, r) ==
  DecimatedLen(DecimatedLen(k, DecimFactor(r)) - 1, AudioFactor(r))

\* line 64, s *= np.exp(f * np.arange(len(s))): the multiplication is done
\* in place, on the array the caller passed; zero samples stay zero
Shift(w) ==
  [i \in 1..Len(w) |->
     IF w[i].level = 0 THEN w[i] ELSE [w[i] EXCEPT !.shift = @ + 1]]

\* decode_fm raises: decimation by a factor of zero, or an empty window
\* (decimate and np.max both reject a zero-size array)
DecodeRaises(w, r) == DecimFactor(r) = 0 \/ SamplesIn(w) = 0

\* np.max(np.abs(s)) of the demodulated signal: zero exactly when every
\* sample of the window is zero
Peak(w) ==
  LET ls == {w[i].level : i \in 1..Len(w)} \cup {0}
  IN  CHOOSE m \in ls : \A x \in ls : x <= m

\* int16 values a cast of NaN can give
NanCast == {0, -32768}

Abs(x) == IF x < 0 THEN -x ELSE x

\* s *= 10000: the peak is forgotten
ScaleFactorsNoPeak(p) == {TargetAmp * FixOne}

\* 10000 / np.max(np.abs(s)), in units of 1/FixOne: the float quotient is
\* the exact one rounded down or up
ScaleFactors(p) ==
  {(TargetAmp * FixOne) \div p, (TargetAmp * FixOne + p - 1) \div p}

\* v * factor for a sample of magnitude v, truncated to an integer
Scaled(v, f) == (v * f) \div FixOne

\* astype("int16") of an integer value: values out of range wrap around
ToInt16(x) == ((x + 32768) % 65536) - 32768

\* the buffers decode_fm can return for window w: s *= 10000 / peak, then
\* astype("int16").  With peak = 0 the factor is inf, every sample becomes
\* 0 * inf = NaN, and the cast of NaN is not defined by numpy.
decode_fm(w, r) ==
  IF Peak(w) = 0
  THEN {[len |-> PcmLen(SamplesIn(w), r), maxabs |-> Abs(v)] : v \in NanCast}
  ELSE {[len |-> PcmLen(SamplesIn(w), r),
         maxabs |-> Abs(ToInt16(Scaled(Peak(w), f)))] :
          f \in ScaleFactors(Peak(w))}

\* ----------------------------------------------------------------- state
NoPcm == [len |-> 0, maxabs |-> 0]

\* the places where main() is suspended and the event loop runs callbacks
Suspended == {"await_chunk", "sleep", "stop_wait", "failed"}

Init ==
  /\ rate \in Rates
  /\ duration \in Durations
  /\ \E p \in FreqPairs : f0 = p[1] /\ f1 = p[2]
  /\ running = FALSE
  /\ pc = "init"
  /\ sigPending = FALSE
  /\ interrupted = FALSE
  /\ freq = 0
  /\ offset = 0
  /\ radio_rate = 0
  /\ sample_rate = 0
  /\ center_freq = -1
  /\ n = 0
  /\ b = <<>>
  /\ s = <<>>
  /\ pcm = NoPcm
  /\ divByZero = FALSE
  /\ error = "none"
  /\ sdrOpen = FALSE
  /\ mixerUp = FALSE
  /\ loopRunning = TRUE
  /\ teardown = <<>>
  /\ chunks = <<>>
  /\ windows = <<>>
  /\ ntune = 0
  /\ ndecode = 0
  /\ nplay = 0

args == <<rate, duration, f0, f1>>
radio == <<freq, offset, center_freq, radio_rate, sample_rate>>
streamVars == <<n, b, s>>
audio == <<pcm, divByZero>>
signals == <<sigPending, interrupted>>
resources == <<sdrOpen, mixerUp, loopRunning, teardown>>
history == <<chunks, windows>>
calls == <<ntune, ndecode, nplay>>

\* the main task ends with an unhandled exception: nothing awaits the
\* gather future, so the loop keeps running and no teardown is executed
Raise(what) ==
  /\ pc' = "failed"
  /\ error' = what

\* main, lines 83-128: parse, mixer.init, Radio(), running = True, and the
\* first step of radio.stream up to its first await on the device stream
MainStart ==
  /\ pc = "init"
  /\ mixerUp' = TRUE
  /\ \E ok \in BOOLEAN :
       IF ok
       THEN /\ sdrOpen' = TRUE
            /\ freq' = f0 * RandDen
            /\ offset' = DefaultOffset
            /\ radio_rate' = rate
            /\ sample_rate' = rate
            /\ running' = TRUE
            /\ n' = StreamN(duration, rate)
            /\ b' = <<>>
            /\ pc' = "await_chunk"
            /\ UNCHANGED error
       ELSE /\ Raise("open")
            /\ UNCHANGED <<sdrOpen, freq, offset, radio_rate, sample_rate,
                           running, n, b>>
  /\ UNCHANGED <<args, signals, center_freq, s, audio, loopRunning, teardown,
                 history, calls>>

\* the operator presses Ctrl-C, at any time from the registration of the
\* handler (line 150) on: the signal is recorded for the event loop
SigArrive ==
  /\ loopRunning
  /\ ~sigPending
  /\ sigPending' = TRUE
  /\ UNCHANGED <<args, running, pc, interrupted, radio, streamVars, audio, error,
                 resources, history, calls>>

\* the handler without its `global running`: the flag is left alone
handle_sigint_local ==
  /\ sigPending
  /\ loopRunning
  /\ pc \in {"await_chunk", "sleep", "stop_wait", "failed"}
  /\ sigPending' = FALSE
  /\ interrupted' = TRUE
  /\ UNCHANGED <<args, running, pc, radio, streamVars, audio, error, resources,
                 history, calls>>

\* handle_sigint, run by the event loop while main is suspended: the first
\* step of main (up to its first await) is queued before run_forever starts
\* and so runs before any signal callback
handle_sigint ==
  /\ sigPending
  /\ loopRunning
  /\ pc \in Suspended
  /\ running' = FALSE
  /\ sigPending' = FALSE
  /\ interrupted' = TRUE
  /\ UNCHANGED <<args, pc, radio, streamVars, audio, error, resources, history,
                 calls>>

\* the test of len(b) < n is missing
WindowAlwaysReady(buf, k) == TRUE

\* the window is complete: len(b) >= n
WindowReady(buf, k) == SamplesIn(buf) >= k

\* Radio.stream, lines 48-57: one chunk x arrives from sdr.stream()
ChunkArrives ==
  /\ pc = "await_chunk"
  /\ Len(chunks) < MaxChunks
  /\ \E size \in ChunkSizes, level \in Levels :
       LET x  == <<[lo |-> SamplesIn(chunks), len |-> size,
                    tune |-> ntune, level |-> level, shift |-> 0]>>
           b1 == Concatenate(b, x)
       IN  /\ chunks' = chunks \o x
           /\ IF WindowReady(b1, n)
              THEN /\ s' = Take(b1, n)
                   /\ b' = Drop(b1, n)
                   /\ windows' = Append(windows, Take(b1, n))
                   /\ pc' = "loop_top"
              ELSE /\ b' = b1
                   /\ UNCHANGED <<s, windows, pc>>
  /\ UNCHANGED <<args, running, signals, radio, n, audio, error, resources,
                 calls>>

\* reading the next chunk raises (device error)
ChunkReadFails ==
  /\ pc = "await_chunk"
  /\ Raise("read")
  /\ UNCHANGED <<args, running, signals, radio, streamVars, audio, resources,
                 history, calls>>

\* sdr.stop() is called and awaited (line 137)
BeginStop ==
  /\ pc' = "stop_wait"
  /\ teardown' = Append(teardown, "sdr.stop")

\* the device stream ends: both async-for loops finish
StreamEnds ==
  /\ pc = "await_chunk"
  /\ BeginStop
  /\ UNCHANGED <<args, running, signals, radio, streamVars, audio, error, sdrOpen,
                 mixerUp, loopRunning, history, calls>>

\* the loop never looks at the flag
LoopNeverBreaks == FALSE

\* line 129: if not running
LoopBreaks == ~running

\* main, lines 129-131: a window was yielded
CheckRunning ==
  /\ pc = "loop_top"
  /\ IF LoopBreaks
     THEN /\ BeginStop
     ELSE /\ pc' = "decode"
          /\ UNCHANGED teardown
  /\ UNCHANGED <<args, running, signals, radio, streamVars, audio, error, sdrOpen,
                 mixerUp, loopRunning, history, calls>>

\* main, line 132: s = radio.decode_fm(s); the window is shifted in place
\* (line 64) before anything in decode_fm can raise
Decode ==
  /\ pc = "decode"
  /\ ndecode' = ndecode + 1
  /\ s' = Shift(s)
  /\ IF DecodeRaises(s, radio_rate)
     THEN /\ Raise("decode")
          /\ UNCHANGED audio
     ELSE /\ pcm' \in decode_fm(s, radio_rate)
          /\ divByZero' = (divByZero \/ Peak(s) = 0)
          /\ pc' = "play"
          /\ UNCHANGED error
  /\ UNCHANGED <<args, running, signals, radio, n, b, resources, history,
                 ntune, nplay>>

\* main, lines 133-134: make_sound(s).play()
Play ==
  /\ pc = "play"
  /\ nplay' = nplay + 1
  /\ pc' = "set_freq"
  /\ UNCHANGED <<args, running, signals, radio, streamVars, audio, error,
                 resources, history, ntune, ndecode>>

\* f0 + random.random() * (f1 - f0), in 1/RandDen MHz, for random() = k/RandDen
NextFreq(k) == f0 * RandDen + k * (f1 - f0)

\* the offset is not subtracted
CenterFreqNoOffset(f, off) == (f * Mega) \div RandDen

\* int(freq * 1000000) - self.offset
CenterFreq(f, off) == (f * Mega) \div RandDen - off

\* main, line 135, and Radio.set_freq: the device may reject the retune
set_freq ==
  /\ pc = "set_freq"
  /\ \E k \in 0..(RandDen - 1), ok \in BOOLEAN :
       /\ freq' = NextFreq(k)
       /\ IF ok
          THEN /\ center_freq' = CenterFreq(NextFreq(k), offset)
               /\ ntune' = ntune + 1
               /\ pc' = "sleep"
               /\ UNCHANGED error
          ELSE /\ Raise("tune")
               /\ UNCHANGED <<center_freq, ntune>>
  /\ UNCHANGED <<args, running, signals, offset, radio_rate, sample_rate,
                 streamVars, audio, resources, history, ndecode, nplay>>

\* main, line 136: asyncio.sleep(d) is over, the stream generator resumes
SleepDone ==
  /\ pc = "sleep"
  /\ pc' = "await_chunk"
  /\ UNCHANGED <<args, running, signals, radio, streamVars, audio, error,
                 resources, history, calls>>

\* the device is not closed
StopDoneNoClose ==
  /\ pc = "stop_wait"
  /\ mixerUp' = FALSE
  /\ loopRunning' = FALSE
  /\ teardown' = teardown \o <<"mixer.quit", "loop.stop">>
  /\ pc' = "done"
  /\ UNCHANGED <<args, running, signals, radio, streamVars, audio, error, history,
                 calls, sdrOpen>>

\* main, lines 137-140: sdr.stop() returns; close, mixer.quit, loop.stop
StopDone ==
  /\ pc = "stop_wait"
  /\ sdrOpen' = FALSE
  /\ mixerUp' = FALSE
  /\ loopRunning' = FALSE
  /\ teardown' = teardown \o <<"sdr.close", "mixer.quit", "loop.stop">>
  /\ pc' = "done"
  /\ UNCHANGED <<args, running, signals, radio, streamVars, audio, error, history,
                 calls>>

\* lines 151-152: run_forever returns, 'Done!' is printed
Exit ==
  /\ pc = "done"
  /\ pc' = "exited"
  /\ UNCHANGED <<args, running, signals, radio, streamVars, audio, error,
                 resources, history, calls>>

Next ==
  \/ MainStart
  \/ SigArrive
  \/ handle_sigint
  \/ ChunkArrives
  \/ ChunkReadFails
  \/ StreamEnds
  \/ CheckRunning
  \/ Decode
  \/ Play
  \/ set_freq
  \/ SleepDone
  \/ StopDone
  \/ Exit

Spec == Init /\ [][Next]_vars

\* the device keeps delivering (a chunk, an error or the end of the stream),
\* the event loop runs every ready step, callback and timer
FairSpec ==
  /\ Spec
  /\ WF_vars(MainStart)
  /\ WF_vars(handle_sigint)
  /\ WF_vars(ChunkArrives \/ ChunkReadFails \/ StreamEnds)
  /\ WF_vars(CheckRunning)
  /\ WF_vars(Decode)
  /\ WF_vars(Play)
  /\ WF_vars(set_freq)
  /\ WF_vars(SleepDone)
  /\ WF_vars(StopDone)
  /\ WF_vars(Exit)

TypeOK ==
  /\ running \in BOOLEAN
  /\ pc \in {"init", "await_chunk", "loop_top", "decode", "play", "set_freq",
             "sleep", "stop_wait", "done", "exited", "failed"}
  /\ error \in {"none", "open", "read", "decode", "tune"}

\* ---------------------------------------------------------------- claims
RECURSIVE Flatten(_)
\* the concatenation of a sequence of arrays
Flatten(ws) == IF ws = <<>> THEN <<>> ELSE Head(ws) \o Flatten(Tail(ws))

RECURSIVE Norm(_)
\* the same samples, with adjacent runs merged wherever they continue
Norm(a) ==
  IF Len(a) <= 1 THEN a
  ELSE LET rest == Norm(Tail(a))
           r1 == Head(a)
           r2 == Head(rest)
       IN  IF /\ r1.lo + r1.len = r2.lo
              /\ r1.tune = r2.tune
              /\ r1.level = r2.level
              /\ r1.shift = r2.shift
           THEN <<[r1 EXCEPT !.len = r1.len + r2.len]>> \o Tail(rest)
           ELSE <<r1>> \o rest

RECURSIVE Covers(_, _, _)
\* array a is exactly the stream samples lo, lo + 1, .., hi - 1, in order
Covers(a, lo, hi) ==
  IF a = <<>> THEN lo = hi
  ELSE Head(a).lo = lo /\ Head(a).len > 0
       /\ Covers(Tail(a), lo + Head(a).len, hi)

\* C1: every window Radio.stream yields has length exactly
\* floor(duration * rate) rounded down to a multiple of 1024: a multiple of
\* 1024, at most duration * rate, and less than one block below it.
C1_WindowLength ==
  \A k \in 1..Len(windows) :
    LET L == SamplesIn(windows[k])
        m == (duration[1] * rate) \div duration[2]
    IN  /\ L = m - (m % 1024)
        /\ L % 1024 = 0
        /\ L * duration[2] <= duration[1] * rate
        /\ (L + 1024) * duration[2] > duration[1] * rate

\* C1 witness: a second, non-empty window was assembled from carried-over
\* samples and a new chunk.
C1_Witness ==
  /\ Len(windows) >= 2
  /\ SamplesIn(windows[2]) > 0
  /\ Len(windows[2]) >= 2

\* C2: the windows yielded so far followed by the carry buffer are exactly
\* the chunks received so far, in order; window k is the stream samples
\* [(k-1)*n, k*n) and the carry buffer is the samples after the last window.
C2_NoSampleLost ==
  /\ Norm(Flatten(windows) \o b) = Norm(chunks)
  /\ \A k \in 1..Len(windows) : Covers(windows[k], (k - 1) * n, k * n)
  /\ Covers(b, Len(windows) * n, SamplesIn(chunks))

\* C2 witness: two non-empty windows were taken and a remainder is carried.
C2_Witness ==
  /\ n > 0
  /\ Len(windows) >= 2
  /\ b # <<>>

\* C3 (as claimed): set_freq is never called while a window is incomplete,
\* so all samples of a window were read under the same tuning.
C3_OneTuningPerWindow ==
  \A k \in 1..Len(windows) :
    \A i, j \in 1..Len(windows[k]) : windows[k][i].tune = windows[k][j].tune

\* C4 (as claimed): before any sample of the k-th window is read, the
\* controller has retuned for that window, so a sample of window k was read
\* after at least k calls of set_freq.
C4_RetuneBeforeSampling ==
  \A k \in 1..Len(windows) :
    \A i \in 1..Len(windows[k]) : windows[k][i].tune >= k

\* C5 (as claimed): once handle_sigint has run, no further set_freq, chunk
\* read, decode_fm or play happens.
C5_NothingAfterInterrupt ==
  [][interrupted =>
       /\ ntune' = ntune
       /\ Len(chunks') = Len(chunks)
       /\ ndecode' = ndecode
       /\ nplay' = nplay]_vars

\* C5 (amended): once handle_sigint has run, no further set_freq, decode_fm
\* or play happens; chunks may still be read until the window in progress
\* is complete, but none is read once teardown has begun.
C5_NoRetuneDecodePlayAfterInterrupt ==
  [][interrupted =>
       /\ ntune' = ntune
       /\ ndecode' = ndecode
       /\ nplay' = nplay
       /\ (teardown # <<>> => Len(chunks') = Len(chunks))]_vars

\* C5 witness: the interrupt was handled after at least one full cycle and
\* the loop has left through the break into teardown.
C5_Witness ==
  /\ interrupted
  /\ nplay >= 1
  /\ pc = "stop_wait"
  /\ Len(windows) > nplay

\* C6 (as claimed): after an interrupt was handled the controller reaches
\* Stopped: device closed, mixer shut down, loop stopped.
C6_InterruptLeadsToStopped ==
  interrupted ~> (pc \in {"done", "exited"} /\ ~sdrOpen /\ ~mixerUp
                  /\ ~loopRunning)

\* C7 (as claimed): when a read, retune or decode error ends the scan loop,
\* the device is released and the event loop stopped.
C7_ErrorReleasesHardware ==
  error \in {"read", "tune", "decode"} => (~sdrOpen /\ ~loopRunning)

\* C8 (as claimed): if n rounds to zero the stream fails instead of
\* yielding, so no window is yielded and decode_fm never gets an empty one.
C8_ZeroWindowFailsFast ==
  /\ (pc # "init" /\ n = 0) => windows = <<>>
  /\ pc = "decode" => SamplesIn(s) > 0

\* a decimation factor of decode_fm is zero for sample rate r
ZeroFactor(r) == DecimFactor(r) = 0 \/ AudioFactor(r) = 0

\* C9 (as claimed): with a zero decimation factor (and a window size that
\* is not zero) the run aborts with a configuration error before any window
\* is handed to decode_fm or played, and no PCM buffer is produced.
C9_ZeroFactorAborts ==
  (ZeroFactor(rate) /\ n > 0) =>
    /\ ndecode = 0
    /\ nplay = 0
    /\ pcm = NoPcm

\* C10 (as claimed): for an all-zero window decode_fm never divides by the
\* zero peak and returns an all-zero buffer.
C10_SilentWindowNotScaled ==
  /\ ~divByZero
  /\ (pc = "play" /\ Peak(s) = 0) => pcm.maxabs = 0

\* C11 (as claimed): decode_fm is pure: the call leaves the contents of the
\* window it is given and the state of the Radio unchanged.
C11_DecodeLeavesWindow ==
  [][pc = "decode" => (s' = s /\ radio' = radio)]_vars

\* C12 (as claimed): every frequency passed to set_freq lies within
\* [min, max] inclusive (freq is kept in units of 1/RandDen MHz).
C12_TargetInRange ==
  (pc = "sleep" \/ error = "tune") =>
    (f0 * RandDen <= freq /\ freq <= f1 * RandDen)

\* C13: for a window that is not all zero, the largest absolute sample of
\* the buffer decode_fm returns is 10000 or 9999, which is within int16.
C13_PeakIsTarget ==
  (pc = "play" /\ \E i \in 1..Len(s) : s[i].level # 0) =>
    /\ pcm.maxabs \in {10000 - 1, 10000}
    /\ pcm.maxabs <= 32767

\* C13 witness: a window with a silent and a non-silent part was decoded and
\* the rounding of the scale factor left the peak at 9999.
C13_Witness ==
  /\ pc = "play"
  /\ \E i \in 1..Len(s) : s[i].level # 0
  /\ \E i \in 1..Len(s) : s[i].level = 0
  /\ pcm.maxabs = 10000 - 1

\* C14 (as claimed): the buffer handed to the sink is at 44100 Hz, i.e.
\* rate / d / d2 = 44100 for the two decimation factors d and d2.
C14_OutputRate ==
  pc = "play" => rate = 44100 * DecimFactor(rate) * AudioFactor(rate)

\* C15 (as claimed): whenever Radio.stream waits for the next chunk, the
\* carry buffer holds fewer than n samples (for a window size n > 0).
C15_CarryBelowWindow ==
  (pc = "await_chunk" /\ n > 0) => SamplesIn(b) < n

\* C16 (as claimed): while not cancelled, once the cycle of a yielded window
\* is over the window has had exactly one decode_fm, one play and one
\* set_freq.
C16_OneOfEachPerWindow ==
  (~interrupted /\ pc \notin {"init", "loop_top", "decode", "play", "set_freq"})
    => /\ ndecode = Len(windows)
       /\ nplay = Len(windows)
       /\ ntune = Len(windows)

\* C16 (amended): the calls of a cycle happen once each and in the order
\* decode_fm, play, set_freq, delay, for a complete window of n > 0 samples;
\* a cycle is cut short only where decode_fm or set_freq raises, or where
\* the loop breaks on the cancelled flag before decode_fm.
C16_CycleInOrder ==
  LET k == Len(windows)
  IN  /\ pc \in {"loop_top", "decode"} =>
            (k >= 1 /\ ndecode = k - 1 /\ nplay = k - 1 /\ ntune = k - 1)
      /\ pc = "play" => (ndecode = k /\ nplay = k - 1 /\ ntune = k - 1)
      /\ pc = "set_freq" => (ndecode = k /\ nplay = k /\ ntune = k - 1)
      /\ pc \in {"sleep", "await_chunk"} =>
            (ndecode = k /\ nplay = k /\ ntune = k)
      /\ pc \in {"stop_wait", "done", "exited"} =>
            /\ ndecode = nplay /\ nplay = ntune
            /\ (ntune = k \/ (ntune = k - 1 /\ interrupted))
      /\ error = "decode" => (ndecode = k /\ nplay = k - 1 /\ ntune = k - 1)
      /\ error = "tune" => (ndecode = k /\ nplay = k /\ ntune = k - 1)
      /\ error \in {"read", "open"} =>
            (ndecode = k /\ nplay = k /\ ntune = k)
      /\ pc \in {"play", "set_freq"} => (n > 0 /\ SamplesIn(s) = n)

\* C16 witness: two windows have gone through their whole cycle.
C16_Witness ==
  /\ pc = "await_chunk"
  /\ ~interrupted
  /\ Len(windows) = 2
  /\ nplay = 2
  /\ ntune = 2

\* C17: Radio.rate, Radio.offset and the device sample rate are set at
\* construction and never change afterwards; Radio.freq and the device
\* center frequency change only in set_freq (Radio.freq also at
\* construction), which sets the center frequency to
\* int(freq * 1000000) - offset.
C17_RateAndOffsetFixed ==
  [][/\ (pc = "init" /\ pc' = "await_chunk") =>
          (radio_rate' = rate /\ sample_rate' = rate /\ offset' = 250000
           /\ center_freq' = center_freq)
     /\ pc # "init" =>
          (radio_rate' = radio_rate /\ sample_rate' = sample_rate
           /\ offset' = offset)
     /\ (freq' # freq \/ center_freq' # center_freq) =>
          pc \in {"init", "set_freq"}
     /\ (pc = "set_freq" /\ pc' = "sleep") =>
          center_freq' = (freq' * 1000000) \div RandDen - offset]_vars

\* C17 witness: two retunes have been made and the device is tuned to the
\* target frequency less the offset.
C17_Witness ==
  /\ pc = "sleep"
  /\ ntune = 2
  /\ radio_rate = rate /\ sample_rate = rate /\ offset = 250000
  /\ center_freq = (freq * 1000000) \div RandDen - 250000

\* the teardown calls of main, lines 137-140, in program order
TeardownOrder == <<"sdr.stop", "sdr.close", "mixer.quit", "loop.stop">>

\* C18: when the scan loop is left by the break or by the end of the
\* stream, the teardown calls are made once each in the order sdr.stop,
\* sdr.close, mixer.quit, loop.stop; 'Done!' comes only after loop.stop,
\* and after sdr.close no set_freq and no chunk read happens.
C18_TeardownOnceInOrder ==
  /\ [](/\ Len(teardown) <= Len(TeardownOrder)
        /\ teardown = SubSeq(TeardownOrder, 1, Len(teardown))
        /\ pc = "stop_wait" => teardown = <<"sdr.stop">>
        /\ pc \in {"done", "exited"} =>
              (teardown = TeardownOrder /\ ~sdrOpen /\ ~mixerUp
               /\ ~loopRunning)
        /\ pc \notin {"stop_wait", "done", "exited"} => teardown = <<>>)
  /\ [][Len(teardown) >= 2 => (ntune' = ntune /\ chunks' = chunks)]_vars

\* C18 witness: the loop was left on an interrupt after a full cycle, the
\* teardown has run and 'Done!' was printed.
C18_Witness ==
  /\ pc = "exited"
  /\ interrupted
  /\ nplay >= 1
  /\ teardown = TeardownOrder

\* C19: an interrupt is not lost: a signal that has arrived stays pending
\* until handle_sigint runs, also when it arrives before main has set
\* running = True; once handle_sigint has run, running is False for ever,
\* and the next test at the top of the scan loop leaves the loop.
C19_InterruptNotLost ==
  /\ [](interrupted => ~running)
  /\ [][/\ sigPending => (sigPending' \/ (interrupted' /\ ~running'))
        /\ (interrupted /\ pc = "loop_top" /\ pc' # pc) =>
             pc' = "stop_wait"]_vars

\* C19 witness: the interrupt was handled while the first window was being
\* assembled, and the test at the top of the loop has left the loop before
\* anything was decoded.
C19_Witness ==
  /\ interrupted
  /\ ~running
  /\ pc = "stop_wait"
  /\ Len(windows) = 1
  /\ ndecode = 0

====
